---- MODULE Spec2Model ----
(***************************************************************************)
(* Model of dosaku's capability binding layer: Agent.learn and the         *)
(* registries it talks to (src/dosaku/core/agent.py).                      *)
(*                                                                         *)
(* Python objects are records.  A module instance is                       *)
(*   [module, gen, cfg]   gen = how many times that module was built,      *)
(* a bound method fetched from an instance is                              *)
(*   [inst, method],                                                       *)
(* and an Actor is                                                         *)
(*   [id, dict, cls]      dict = the object's own attributes,              *)
(*                        cls  = the attributes of its own _Actor class.   *)
(* Attribute dictionaries are functions whose domain is the set of         *)
(* attribute names that are set.  An absent value (Python's None, a        *)
(* missing attribute, a module that is not cached) is a record of its own. *)
(*                                                                         *)
(* Specifications:                                                         *)
(*   Spec        learn, module registration and the services flag          *)
(*   ThreadSpec  learn called from two threads, statement by statement     *)
(*   PermSpec    learn and the permission flags                            *)
(*   SubSpec     spawn_subagent, remove_subagent and the flags             *)
(*   MemSpec     memorize and learn on one agent                           *)
(*   StreamSpec  a streaming message and its consumer                      *)
(*   DiscordSpec the Discord bot's on_message                              *)
(***************************************************************************)
EXTENDS Integers, Sequences, FiniteSets, TLC

None == "None"

\* One behaviour builds at most MaxLoads module instances and at most
\* MaxBindings Actors.
MaxLoads == 2
MaxBindings == 2

\* One behaviour creates at most MaxSpawns sub-agents, and a response has at
\* most MaxResponse characters.
MaxSpawns == 2
MaxResponse == 3

\* A chat response sent over Discord has fewer than MaxChunks + 1 times
\* max_len characters.
MaxChunks == 3

Agents == {"a1", "a2"}

\* The agents whose flags the behaviours switch; the other agent keeps the
\* constructor's default, False.
Switchers == {"a2"}

\* Tasks registered with the task hub, and one name the hub does not know.
TaskNames == {"Chat", "ZeroShotTextClassification"}
UnknownTask == "Unregistered"
TaskArgs == TaskNames \cup {UnknownTask}

ModuleNames == {"EchoBot", "OpenAIChat", "BARTZeroShotClassifier"}

\* Keyword arguments of learn, forwarded to the module's constructor:
\* none ("default"), stream=True ("alt"), and a keyword the constructor does
\* not take ("unexpected").
Configs == {"default", "alt"}

\* The keyword arguments the behaviours pass with each module argument.
ConfigArgs(arg) ==
    IF arg = "EchoBot" THEN {"default", "alt"}
    ELSE IF arg = "BARTZeroShotClassifier" THEN {"default", "unexpected"}
    ELSE {"default"}

Empty == <<>>

(***************************************************************************)
(* Static facts about tasks and modules.                                   *)
(***************************************************************************)

\* The abstract methods a task declares, in declaration order.
TaskApi(t) ==
    IF t = "Chat" THEN <<"message", "__call__">>
    ELSE <<"classify", "__call__">>

\* The attributes a module class defines.
ModuleAttrs(m) ==
    IF m = "BARTZeroShotClassifier" THEN {"classify", "__call__"}
    ELSE {"message", "__call__"}

\* The task a module registers itself for.
ModuleTask(m) ==
    IF m = "BARTZeroShotClassifier" THEN "ZeroShotTextClassification" ELSE "Chat"

\* The modules that register after the agents exist, in any order.
LateModules == {"EchoBot", "OpenAIChat"}

\* The permission a module needs: Service modules need services, Executor
\* modules executors.  No module here is an Executor.
RequiresServices(m) == m = "OpenAIChat"
RequiresExecutors(m) == FALSE

\* '__' in module_attr.__name__
HasDoubleUnderscore(name) == name \in {"__call__"}

(***************************************************************************)
(* State.                                                                  *)
(***************************************************************************)
VARIABLES
    hub,             \* task_hub: task -> module names in registration order
    modules,         \* module_manager.modules: module name -> cached instance
    allow_services,  \* agent -> _allow_services
    allow_executors, \* agent -> _allow_executors
    known,           \* agent -> _known_tasks, a dict kept as <<key, value>> pairs
    attrs,           \* agent -> task name -> what setattr put there
    baseActor,       \* attributes of the shared class Actor
    learned,         \* agent -> task -> module of the latest successful learn
    last,            \* how the latest learn ended, and its arguments
                     \* once load_module has returned
    memorized,       \* agent -> _memorized_tasks, a dict as <<key, value>> pairs
    subagents,       \* agent -> sub-agent name -> the child Agent
    threads,         \* thread -> the learn call it is in and where
    stream,          \* a streaming response and its consumer
    note,            \* the latest call other than learn and how it ended
    discord          \* the Discord message being handled and what was sent

\* The state of learn and of the registries.
core == <<hub, modules, allow_services, allow_executors, known, attrs,
          baseActor, learned, last>>

\* The state of memorize, sub-agents, threads and streaming responses.
ext == <<memorized, subagents, threads, stream, note, discord>>

vars == <<hub, modules, allow_services, allow_executors, known, attrs,
          baseActor, learned, last, memorized, subagents, threads, stream,
          note, discord>>

NotLoaded == [gen |-> 0]
NoAttr == [kind |-> "none", id |-> 0]
NoCallable == [method |-> None]

NoCall == [op |-> "none", agent |-> None, task |-> None, arg |-> None,
           module |-> None, force |-> FALSE, cfg |-> None,
           outcome |-> "ok", relearn |-> FALSE, prev |-> None,
           cached |-> FALSE]

(***************************************************************************)
(* Python dict with insertion order, as a sequence of <<key, value>>.      *)
(***************************************************************************)
Keys(d) == [i \in 1..Len(d) |-> d[i][1]]

HasKey(d, k) == \E i \in 1..Len(d) : d[i][1] = k

\* d[k] = v
DictSet(d, k, v) ==
    IF HasKey(d, k)
    THEN [i \in 1..Len(d) |-> IF d[i][1] = k THEN <<k, v>> ELSE d[i]]
    ELSE Append(d, <<k, v>>)

\* d[k], for a key of d
DictGet(d, k) == d[CHOOSE i \in 1..Len(d) : d[i][1] = k][2]

Count(s, x) == Cardinality({i \in 1..Len(s) : s[i] = x})

(***************************************************************************)
(* Task hub and module manager.                                            *)
(***************************************************************************)

\* task_hub.registered_modules(task): the list, possibly empty, of a task
\* the hub knows, and None for a name it does not know.
registered_modules(t) ==
    IF t \in TaskNames THEN [none |-> FALSE, list |-> hub[t]]
    ELSE [none |-> TRUE, list |-> <<>>]

\* task_hub.api(task)
api(t) == TaskApi(t)

\* module_manager.load_module(name, force_reload, allow_services,
\* allow_executors, **kwargs): the error raised, if any, and the cache after.
load_module(cache, name, force_reload, allowS, allowE, cfg) ==
    IF cache[name].gen > 0 /\ ~force_reload
    THEN [err |-> None, cache |-> cache]
    ELSE IF RequiresServices(name) /\ ~allowS
    THEN [err |-> "ServicePermissionRequired", cache |-> cache]
    ELSE IF RequiresExecutors(name) /\ ~allowE
    THEN [err |-> "ExecutorPermissionRequired", cache |-> cache]
    ELSE IF cfg \notin Configs
    THEN [err |-> "TypeError", cache |-> cache]
    ELSE [err |-> None,
          cache |-> [cache EXCEPT ![name] =
                        [module |-> name, gen |-> cache[name].gen + 1, cfg |-> cfg]]]

\* module_manager.get_module_attr(name, attr): the method bound to the
\* cached instance.
get_module_attr(cache, name, method) ==
    IF cache[name].gen = 0
    THEN [err |-> "ModuleForTaskNotFound", value |-> NoCallable]
    ELSE IF method \notin ModuleAttrs(name)
    THEN [err |-> "AttributeError", value |-> NoCallable]
    ELSE [err |-> None, value |-> [inst |-> cache[name], method |-> method]]

(***************************************************************************)
(* Actors and attribute lookup.                                            *)
(***************************************************************************)

\* class _Actor(Actor): a class of its own for every learn call.
ActorClass == "_Actor"

\* _Actor(): a new object, different from the one it replaces.
NewActor(old) == [kind |-> "Actor", id |-> old.id + 1, dict |-> Empty, cls |-> Empty]

\* Variant: every attribute is set on the Actor object.
AttachAtObject(name) == FALSE

\* if '__' in module_attr.__name__: the attribute goes to the class.
AttachAtClass(name) == HasDoubleUnderscore(name)

SetAttr(d, name, value) == (name :> value) @@ d

\* One pass of the loop body: setattr on the Actor's class or on the Actor.
\* st = [actor, base]; base holds the attributes of the class Actor.
AttachOne(st, method, value) ==
    IF AttachAtClass(method)
    THEN IF ActorClass = "_Actor"
         THEN [st EXCEPT !.actor.cls = SetAttr(st.actor.cls, method, value)]
         ELSE [st EXCEPT !.base = SetAttr(st.base, method, value)]
    ELSE [st EXCEPT !.actor.dict = SetAttr(st.actor.dict, method, value)]

\* for method in self.task_hub.api(task): ... ; stops at the first failure
\* with what was attached so far.
RECURSIVE AttachAll(_, _, _, _)
AttachAll(st, cache, module, methods) ==
    IF methods = <<>> THEN [err |-> None, st |-> st]
    ELSE LET r == get_module_attr(cache, module, Head(methods)) IN
         IF r.err # None THEN [err |-> r.err, st |-> st]
         ELSE AttachAll(AttachOne(st, Head(methods), r.value), cache, module,
                        Tail(methods))

\* obj.name: the object's own attributes, then its class, then the base class.
Lookup(obj, base, name) ==
    IF obj.kind # "Actor" THEN NoCallable
    ELSE IF name \in DOMAIN obj.dict THEN obj.dict[name]
    ELSE IF name \in DOMAIN obj.cls THEN obj.cls[name]
    ELSE IF name \in DOMAIN base THEN base[name]
    ELSE NoCallable

\* obj(...) and the other operator forms: looked up on the type only.
TypeLookup(obj, base, name) ==
    IF obj.kind # "Actor" THEN NoCallable
    ELSE IF name \in DOMAIN obj.cls THEN obj.cls[name]
    ELSE IF name \in DOMAIN base THEN base[name]
    ELSE NoCallable

\* What a use of action `name` of agent.task reaches: agent.task.name(...)
\* for a plain action, the operator form for an operator-like one.
Dispatch(obj, base, name) ==
    IF HasDoubleUnderscore(name) THEN TypeLookup(obj, base, name)
    ELSE Lookup(obj, base, name)

(***************************************************************************)
(* Agent.                                                                  *)
(***************************************************************************)

\* Agent.known_tasks
known_tasks(a) == Keys(known[a])

\* Agent.memorized_tasks
memorized_tasks(a) == Keys(memorized[a])

\* Agent.tasks
tasks(a) == known_tasks(a) \o memorized_tasks(a)

\* Agent.api(task): the hub's answer for a task the hub knows, else the
\* actions memorized under the name, else None, written <<>>.
AgentApi(a, t) ==
    IF t \in TaskNames THEN api(t)
    ELSE IF HasKey(memorized[a], t) THEN DictGet(memorized[a], t)
    ELSE <<>>

\* Variant: the default is the module registered last.
ResolveModuleLast(t, arg) ==
    IF arg # None THEN [err |-> None, module |-> arg]
    ELSE LET ms == registered_modules(t) IN
         IF ms.none THEN [err |-> "ModuleForTaskNotFound", module |-> None]
         ELSE IF Len(ms.list) = 0 THEN [err |-> "IndexError", module |-> None]
         ELSE [err |-> None, module |-> ms.list[Len(ms.list)]]

\* learn, lines 112-116: the module to load.
ResolveModule(t, arg) ==
    IF arg # None THEN [err |-> None, module |-> arg]
    ELSE LET ms == registered_modules(t) IN
         IF ms.none THEN [err |-> "ModuleForTaskNotFound", module |-> None]
         ELSE IF Len(ms.list) = 0 THEN [err |-> "IndexError", module |-> None]
         ELSE [err |-> None, module |-> ms.list[1]]

\* Variant: force_relearn is not passed on.
LearnLoadNoForce(a, module, force_relearn, cfg) ==
    load_module(modules, module, FALSE, allow_services[a],
                allow_executors[a], cfg)

\* Variant: every learn reloads.
LearnLoadAlwaysForce(a, module, force_relearn, cfg) ==
    load_module(modules, module, TRUE, allow_services[a],
                allow_executors[a], cfg)

\* learn, lines 119-127: the load with the agent's flags.
LearnLoad(a, module, force_relearn, cfg) ==
    load_module(modules, module, force_relearn, allow_services[a],
                allow_executors[a], cfg)

\* Variant: only the first action of the task is attached.
BindFirstAction(a, t, module, cache) ==
    AttachAll([actor |-> NewActor(attrs[a][t]), base |-> baseActor],
              cache, module, <<Head(api(t))>>)

\* learn, lines 129-144: the new Actor, the attachments and the record.
\* st = [actor, base] after the loop, err = what the loop raised.
Bind(a, t, module, cache) ==
    AttachAll([actor |-> NewActor(attrs[a][t]), base |-> baseActor],
              cache, module, api(t))

\* Variant: the task is appended to a list of known tasks.
RecordKnownAppend(d, t) == Append(d, <<t, api(t)>>)

\* learn, line 144
RecordKnown(d, t) == DictSet(d, t, api(t))

RECURSIVE Sum(_, _)
Sum(f, S) ==
    IF S = {} THEN 0
    ELSE LET x == CHOOSE y \in S : TRUE IN f[x] + Sum(f, S \ {x})

\* Instances built and Actors created so far.
Loads == Sum([m \in ModuleNames |-> modules[m].gen], ModuleNames)
Bindings ==
    Sum([p \in Agents \X TaskNames |-> attrs[p[1]][p[2]].id], Agents \X TaskNames)

\* A call that raises before load_module has returned: nothing changes.
LearnRaises(err) ==
    /\ last' = [NoCall EXCEPT !.op = "learn", !.outcome = err]
    /\ UNCHANGED <<modules, attrs, baseActor, known, learned>>

\* A call that got past load_module, which left the cache as `cache`.
LearnBinds(a, t, arg, module, force, cfg, cache) ==
    /\ cache # modules => Loads < MaxLoads
    /\ Bindings < MaxBindings
    /\ \E b \in {Bind(a, t, module, cache)} :
        /\ modules' = cache
        /\ attrs' = [attrs EXCEPT ![a][t] = b.st.actor]
        /\ baseActor' = b.st.base
        /\ known' = IF b.err = None
                    THEN [known EXCEPT ![a] = RecordKnown(known[a], t)]
                    ELSE known
        /\ learned' = IF b.err = None THEN [learned EXCEPT ![a][t] = module]
                      ELSE learned
        /\ last' = [op |-> "learn", agent |-> a, task |-> t, arg |-> arg,
                    module |-> module, force |-> force, cfg |-> cfg,
                    outcome |-> IF b.err = None THEN "ok" ELSE b.err,
                    relearn |-> HasKey(known[a], t),
                    prev |-> learned[a][t],
                    cached |-> modules[module].gen > 0]

\* The whole call learn(task, module=arg, force_relearn=force, **cfg) of
\* agent a.
Learn(a, t, arg, force, cfg) ==
    /\ arg # None => t \in TaskNames
    /\ \E rm \in {ResolveModule(t, arg)} :
        IF rm.err # None THEN LearnRaises(rm.err)
        ELSE \E ld \in {LearnLoad(a, rm.module, force, cfg)} :
                IF ld.err # None THEN LearnRaises(ld.err)
                ELSE LearnBinds(a, t, arg, rm.module, force, cfg, ld.cache)
    /\ UNCHANGED <<hub, allow_services, allow_executors>>

\* Module.register_task(task): the module is appended to the task's list.
RegisterModule(m) ==
    /\ \A i \in 1..Len(hub[ModuleTask(m)]) : hub[ModuleTask(m)][i] # m
    /\ hub' = [hub EXCEPT ![ModuleTask(m)] = Append(@, m)]
    /\ last' = NoCall
    /\ UNCHANGED <<modules, allow_services, allow_executors, known, attrs,
                   baseActor, learned>>

EnableServices(a) ==
    /\ allow_services' = [allow_services EXCEPT ![a] = TRUE]
    /\ last' = NoCall
    /\ UNCHANGED <<hub, modules, allow_executors, known, attrs, baseActor, learned>>

\* Variant: disabling services also forgets what the agent has learned.
DisableServicesForgets(a) ==
    /\ allow_services' = [allow_services EXCEPT ![a] = FALSE]
    /\ known' = [known EXCEPT ![a] = <<>>]
    /\ attrs' = [attrs EXCEPT ![a] = [t \in TaskArgs |-> NoAttr]]
    /\ last' = NoCall
    /\ UNCHANGED <<hub, modules, allow_executors, baseActor, learned>>

DisableServices(a) ==
    /\ allow_services' = [allow_services EXCEPT ![a] = FALSE]
    /\ last' = NoCall
    /\ UNCHANGED <<hub, modules, allow_executors, known, attrs, baseActor, learned>>

EnableExecutors(a) ==
    /\ allow_executors' = [allow_executors EXCEPT ![a] = TRUE]
    /\ last' = NoCall
    /\ UNCHANGED <<hub, modules, allow_services, known, attrs, baseActor, learned>>

DisableExecutors(a) ==
    /\ allow_executors' = [allow_executors EXCEPT ![a] = FALSE]
    /\ last' = NoCall
    /\ UNCHANGED <<hub, modules, allow_services, known, attrs, baseActor, learned>>

\* Nothing memorized, no sub-agent, no thread in a call, no response.
NoNote == [op |-> "none", agent |-> None, name |-> None, outcome |-> "ok",
           given |-> <<>>]
Threads == {"t1", "t2"}
NoThread == [pc |-> "idle"]
NoStream == [response |-> <<>>, pos |-> 0, state |-> "none", yielded |-> <<>>]

Parents == {"a1"}
\* No Discord message has come in.
NoMessage == [state |-> "idle", author |-> None, kind |-> None, text |-> <<>>,
              num_chunks |-> 0, idx |-> 0, sent |-> <<>>, replies |-> 0,
              outcome |-> None]

SubNames == {"helper", "critic"}

\* No Agent under a name of self.subagents; gen counts the Agents the name
\* has had.
NoChild == [present |-> FALSE, gen |-> 0, services |-> FALSE, executors |-> FALSE]

ExtInit ==
    /\ memorized = [a \in Agents |-> <<>>]
    /\ subagents = [a \in Agents |-> [n \in SubNames |-> NoChild]]
    /\ threads = [th \in Threads |-> NoThread]
    /\ stream = NoStream
    /\ note = NoNote
    /\ discord = NoMessage

\* Agent(name): no permissions, nothing known, nothing loaded.  The modules
\* under src/ have registered; the others register later, in any order.
Init ==
    /\ hub = [t \in TaskNames |->
                IF t = "ZeroShotTextClassification"
                THEN <<"BARTZeroShotClassifier">> ELSE <<>>]
    /\ modules = [m \in ModuleNames |-> NotLoaded]
    /\ allow_services = [a \in Agents |-> FALSE]
    /\ allow_executors = [a \in Agents |-> FALSE]
    /\ known = [a \in Agents |-> <<>>]
    /\ attrs = [a \in Agents |-> [t \in TaskArgs |-> NoAttr]]
    /\ baseActor = Empty
    /\ learned = [a \in Agents |-> [t \in TaskNames |-> None]]
    /\ last = NoCall
    /\ ExtInit

Next ==
    \/ /\ \E a \in Agents, t \in TaskArgs, arg \in ModuleNames \cup {None},
             force \in BOOLEAN :
               \E cfg \in ConfigArgs(arg) : Learn(a, t, arg, force, cfg)
       /\ UNCHANGED ext
    \/ /\ \E m \in LateModules : RegisterModule(m)
       /\ UNCHANGED ext
    \/ /\ \E a \in Switchers : EnableServices(a)
       /\ UNCHANGED ext
    \/ /\ \E a \in Switchers : DisableServices(a)
       /\ UNCHANGED ext

Spec == Init /\ [][Next]_vars

(***************************************************************************)
(* Properties.                                                             *)
(***************************************************************************)

\* What a use of action `name` of agent.task reaches, now and after a step.
Reached(a, t, name) == Dispatch(attrs[a][t], baseActor, name)
ReachedNext(a, t, name) == Dispatch(attrs'[a][t], baseActor', name)

ApiSet(t) == {api(t)[i] : i \in 1..Len(api(t))}

\* Every bound method an Actor holds, on the object or on its class.
Held(obj) ==
    IF obj.kind # "Actor" THEN {}
    ELSE {obj.dict[n] : n \in DOMAIN obj.dict} \cup {obj.cls[n] : n \in DOMAIN obj.cls}

\* The latest call was a learn that returned normally.
Learned == last.op = "learn" /\ last.outcome = "ok"

\* C1: learn(T, module=M) by an agent that lacks the permission M needs
\* fails with the permission error, does not make T known and leaves the
\* cache entry of M as it was, whatever happened before the call.
C1_PermissionDenied ==
    [][\A a \in Agents, t \in TaskNames, m \in ModuleNames, force \in BOOLEAN :
         \A cfg \in ConfigArgs(m) :
           ( /\ \/ RequiresServices(m) /\ ~allow_services[a]
                \/ RequiresExecutors(m) /\ ~allow_executors[a]
             /\ Learn(a, t, m, force, cfg) )
           => /\ last'.outcome =
                    IF RequiresServices(m) /\ ~allow_services[a]
                    THEN "ServicePermissionRequired"
                    ELSE "ExecutorPermissionRequired"
              /\ ~HasKey(known[a], t) => ~HasKey(known'[a], t)
              /\ modules'[m] = modules[m]]_vars

\* C2: a learn that fails leaves known_tasks and the attribute under the
\* task name as they were.
C2_FailedLearnChangesNothing ==
    [][(last'.op = "learn" /\ last'.outcome # "ok")
         => (known' = known /\ attrs' = attrs)]_vars

\* C3: learn(T) without a module, for a task whose list of registered
\* modules is empty or absent, fails with ModuleForTaskNotFound and T is
\* not known afterwards.
C3_NoModuleForTask ==
    [][\A a \in Agents, t \in TaskArgs, force \in BOOLEAN :
         ( /\ registered_modules(t).none \/ registered_modules(t).list = <<>>
           /\ Learn(a, t, None, force, "default") )
         => /\ last'.outcome = "ModuleForTaskNotFound"
            /\ ~HasKey(known'[a], t)]_vars

\* C4: a successful learn(T) without a module binds every action of T to
\* the module registered first for T.
C4_DefaultIsFirstRegistered ==
    (Learned /\ last.arg = None) =>
        /\ Len(hub[last.task]) >= 1
        /\ \A n \in ApiSet(last.task) :
             LET c == Reached(last.agent, last.task, n) IN
             /\ c # NoCallable
             /\ c.inst.module = hub[last.task][1]

C4_Witness ==
    /\ Learned /\ last.arg = None
    /\ Len(hub[last.task]) >= 2

\* C5: after a successful learn(T), agent.api(T) is the task hub's api(T)
\* and known_tasks holds T exactly once, also when T is learned again.
C5_ApiAndKnownOnce ==
    Learned =>
        /\ AgentApi(last.agent, last.task) = api(last.task)
        /\ Count(known_tasks(last.agent), last.task) = 1

C5_Witness == Learned /\ last.relearn

\* C6: a successful learn(T, module=M, force_relearn=True) by an agent that
\* already knows T puts a new instance of M in the cache and a new Actor
\* under T, and every action of T then reaches the new instance.
C6_ForceRelearnReplaces ==
    [][(last'.op = "learn" /\ last'.outcome = "ok" /\ last'.force /\ last'.relearn)
         => LET a == last'.agent
                t == last'.task
                m == last'.module
            IN  /\ modules'[m].gen > 0
                /\ modules'[m] # modules[m]
                /\ attrs'[a][t].kind = "Actor"
                /\ attrs'[a][t].id # attrs[a][t].id
                /\ \A n \in ApiSet(t) :
                     /\ ReachedNext(a, t, n) = [inst |-> modules'[m], method |-> n]
                     /\ ReachedNext(a, t, n) # Reached(a, t, n)]_vars

C6_Witness == Learned /\ last.force /\ last.relearn /\ last.cached

\* C7: every bound method held by every Actor belongs to the instance that
\* is cached under its module's name.
C7_ActorsHoldCachedInstance ==
    \A a \in Agents, t \in TaskNames :
        \A c \in Held(attrs[a][t]) : c.inst = modules[c.inst.module]

\* C8: a learn without force_relearn through a module that is cached leaves
\* the whole cache as it was, whatever the keyword arguments, and binds the
\* Actor to the instance that was cached.
C8_CacheHitReuses ==
    [][(last'.op = "learn" /\ last'.module # None /\ ~last'.force /\ last'.cached)
         => /\ modules' = modules
            /\ last'.outcome = "ok" =>
                 \A n \in ApiSet(last'.task) :
                    ReachedNext(last'.agent, last'.task, n)
                        = [inst |-> modules[last'.module], method |-> n]]_vars

\* Two agents share one instance, and the second asked for another
\* configuration than the one the instance was built with.
C8_Witness ==
    /\ Learned /\ ~last.force /\ last.cached
    /\ last.cfg # modules[last.module].cfg
    /\ \E a \in Agents \ {last.agent}, t \in TaskNames :
         \E c \in Held(attrs[a][t]) : c.inst = modules[last.module]

\* C9: after a successful learn(T, module=M2) by an agent whose T was bound
\* to another module, every action of T, the operator-like ones included,
\* reaches M2, and the Actor holds no method of another module.
C9_OneModulePerTask ==
    (Learned /\ last.relearn /\ last.prev # last.module) =>
        /\ \A n \in ApiSet(last.task) :
             LET c == Reached(last.agent, last.task, n) IN
             /\ c # NoCallable
             /\ c.inst.module = last.module
             /\ c.method = n
        /\ \A c \in Held(attrs[last.agent][last.task]) : c.inst.module = last.module

C9_Witness == Learned /\ last.relearn /\ last.prev # last.module

\* C10: the operator-like action of the Actor of (a, t) reaches the module
\* of the latest successful learn of t by a, and a learn of another task or
\* by another agent does not change what it reaches.
C10_OverridePerBinding ==
    [][/\ \A a \in Agents, t \in TaskNames :
            learned'[a][t] # None =>
               LET c == TypeLookup(attrs'[a][t], baseActor', "__call__") IN
               c # NoCallable /\ c.inst.module = learned'[a][t]
       /\ \A a \in Agents, t \in TaskNames :
            (last'.op = "learn" /\ last'.module # None
               /\ <<a, t>> # <<last'.agent, last'.task>>)
            => TypeLookup(attrs'[a][t], baseActor', "__call__")
                 = TypeLookup(attrs[a][t], baseActor, "__call__")]_vars


(***************************************************************************)
(* learn called from several threads.  A thread can be preempted between   *)
(* any two statements of learn; load_module is one step, the registry      *)
(* holding its lock from the cache check to the cache write.               *)
(***************************************************************************)

\* learn, lines 109-127, of a call learn(t, module=m): the load.
ThreadLoad(th, a, t, m) ==
    /\ threads[th].pc = "idle"
    /\ \E ld \in {LearnLoad(a, m, FALSE, "default")} :
        /\ modules' = ld.cache
        /\ threads' = [threads EXCEPT ![th] =
                         [pc |-> IF ld.err = None THEN "create" ELSE "raised",
                          agent |-> a, task |-> t, module |-> m, i |-> 1,
                          module_attr |-> NoCallable]]
    /\ UNCHANGED <<hub, allow_services, allow_executors, known, attrs,
                   baseActor, learned, last, memorized, subagents, stream, note, discord>>

\* learn, lines 131-135: setattr(self, task, _Actor()).
ThreadCreate(th) ==
    /\ threads[th].pc = "create"
    /\ attrs' = [attrs EXCEPT ![threads[th].agent][threads[th].task] =
                    NewActor(@)]
    /\ threads' = [threads EXCEPT ![th].pc = "attach"]
    /\ UNCHANGED <<hub, modules, allow_services, allow_executors, known,
                   baseActor, learned, last, memorized, subagents, stream, note, discord>>

\* learn, lines 136-143: one pass of the loop.  The Actor the attribute is
\* set on is the one getattr(self, task) returns at that moment.
ThreadAttach(th) ==
    /\ threads[th].pc = "attach"
    /\ LET a == threads[th].agent
           t == threads[th].task
           i == threads[th].i
       IN \E r \in {get_module_attr(modules, threads[th].module, api(t)[i])} :
            IF r.err # None
            THEN /\ threads' = [threads EXCEPT ![th].pc = "raised"]
                 /\ UNCHANGED <<attrs, baseActor>>
            ELSE \E st \in {AttachOne([actor |-> attrs[a][t], base |-> baseActor],
                                      api(t)[i], r.value)} :
                    /\ attrs' = [attrs EXCEPT ![a][t] = st.actor]
                    /\ baseActor' = st.base
                    /\ threads' = [threads EXCEPT
                          ![th].pc = IF i = Len(api(t)) THEN "record" ELSE "attach",
                          ![th].i = i + 1,
                          ![th].module_attr = r.value]
    /\ UNCHANGED <<hub, modules, allow_services, allow_executors, known,
                   learned, last, memorized, subagents, stream, note, discord>>

\* learn, line 144, and the return.
ThreadRecord(th) ==
    /\ threads[th].pc = "record"
    /\ known' = [known EXCEPT ![threads[th].agent] =
                    RecordKnown(@, threads[th].task)]
    /\ learned' = [learned EXCEPT ![threads[th].agent][threads[th].task] =
                      threads[th].module]
    /\ threads' = [threads EXCEPT ![th].pc = "done"]
    /\ UNCHANGED <<hub, modules, allow_services, allow_executors, attrs,
                   baseActor, last, memorized, subagents, stream, note, discord>>

\* Every module imported, agents built with or without enable_services.
ThreadInit ==
    /\ hub = [t \in TaskNames |->
                IF t = "Chat" THEN <<"EchoBot", "OpenAIChat">>
                ELSE <<"BARTZeroShotClassifier">>]
    /\ modules = [m \in ModuleNames |-> NotLoaded]
    /\ allow_services \in [Agents -> BOOLEAN]
    /\ allow_executors = [a \in Agents |-> FALSE]
    /\ known = [a \in Agents |-> <<>>]
    /\ attrs = [a \in Agents |-> [t \in TaskArgs |-> NoAttr]]
    /\ baseActor = Empty
    /\ learned = [a \in Agents |-> [t \in TaskNames |-> None]]
    /\ last = NoCall
    /\ ExtInit

ThreadNext ==
    \/ \E th \in Threads, a \in Agents, t \in TaskNames, m \in ModuleNames :
          ThreadLoad(th, a, t, m)
    \/ \E th \in Threads : ThreadCreate(th)
    \/ \E th \in Threads : ThreadAttach(th)
    \/ \E th \in Threads : ThreadRecord(th)

ThreadSpec == ThreadInit /\ [][ThreadNext]_vars

\* The bound methods agent.task gives for the actions of the task.
ReachedAll(a, t) == {Reached(a, t, n) : n \in ApiSet(t)}

\* C11: whenever a reader obtains agent.T for a task T the agent knows, it
\* gets an Actor that has every action of api(T), all of them attached by
\* one learn call and so bound to one module.
C11_NoHalfAttachedActor ==
    \A a \in Agents, t \in TaskNames :
        HasKey(known[a], t) =>
            /\ attrs[a][t].kind = "Actor"
            /\ NoCallable \notin ReachedAll(a, t)
            /\ \A c, d \in ReachedAll(a, t) : c.inst.module = d.inst.module

Inputs == {"x1", "x2"}

\* The action a module's operator form runs: Chat.__call__ returns
\* self.message(...), BARTZeroShotClassifier.__call__ returns
\* self.classify(...).
Delegate(module, method) ==
    IF method # "__call__" THEN method
    ELSE IF ModuleTask(module) = "Chat" THEN "message" ELSE "classify"

\* What the bound method c returns for the input x: the answer of its
\* instance, as configured, for the action it runs.
Returns(c, x) ==
    [err |-> None, by |-> c.inst, action |-> Delegate(c.inst.module, c.method),
     input |-> x]

\* agent.task.name(x), or agent.task(x) for an operator-like name, with the
\* Actor obj: the bound method found is called with x, nothing else is.
CallThrough(obj, base, name, x) ==
    LET c == Dispatch(obj, base, name) IN
    IF c = NoCallable THEN [err |-> "AttributeError"]
    ELSE Returns(c, x)

(***************************************************************************)
(* Permission flags changed after learning.                                *)
(***************************************************************************)
Noted(op, a, name, outcome) ==
    [op |-> op, agent |-> a, name |-> name, outcome |-> outcome, given |-> <<>>]

PermLearn(a, m) ==
    /\ Learn(a, "Chat", m, FALSE, "default")
    /\ note' = NoNote
    /\ UNCHANGED <<memorized, subagents, threads, stream, discord>>

PermEnableServices(a) ==
    /\ EnableServices(a)
    /\ note' = Noted("enable_services", a, None, "ok")
    /\ UNCHANGED <<memorized, subagents, threads, stream, discord>>

PermDisableServices(a) ==
    /\ DisableServices(a)
    /\ note' = Noted("disable_services", a, None, "ok")
    /\ UNCHANGED <<memorized, subagents, threads, stream, discord>>

PermEnableExecutors(a) ==
    /\ EnableExecutors(a)
    /\ note' = Noted("enable_executors", a, None, "ok")
    /\ UNCHANGED <<memorized, subagents, threads, stream, discord>>

PermDisableExecutors(a) ==
    /\ DisableExecutors(a)
    /\ note' = Noted("disable_executors", a, None, "ok")
    /\ UNCHANGED <<memorized, subagents, threads, stream, discord>>

PermNext ==
    \/ \E a \in Agents, m \in {"EchoBot", "OpenAIChat"} : PermLearn(a, m)
    \/ \E a \in Agents : PermEnableServices(a)
    \/ \E a \in Agents : PermDisableServices(a)
    \/ \E a \in Agents : PermEnableExecutors(a)
    \/ \E a \in Agents : PermDisableExecutors(a)

PermSpec == Init /\ [][PermNext]_vars

\* C13: disable_services and disable_executors change the caller's flag and
\* nothing else: the cache, known_tasks and the Actors stay, and every call
\* through an Actor returns what it returned before.
C13_DisableChangesOnlyFlag ==
    [][\A a \in Agents :
        /\ (note'.op = "disable_services" /\ note'.agent = a)
            => /\ allow_services' = [allow_services EXCEPT ![a] = FALSE]
               /\ allow_executors' = allow_executors
        /\ (note'.op = "disable_executors" /\ note'.agent = a)
            => /\ allow_executors' = [allow_executors EXCEPT ![a] = FALSE]
               /\ allow_services' = allow_services
        /\ note'.op \in {"disable_services", "disable_executors"}
            => /\ known' = known /\ modules' = modules /\ hub' = hub
               /\ \A b \in Agents, t \in TaskNames :
                    /\ attrs'[b][t] = attrs[b][t]
                    /\ \A n \in ApiSet(t), x \in Inputs :
                         CallThrough(attrs'[b][t], baseActor', n, x)
                           = CallThrough(attrs[b][t], baseActor, n, x)]_vars

\* An agent that learned Chat through OpenAIChat, which needs services, in
\* the only learn so far has just disabled services, and its Chat answers.
C13_Witness ==
    \E a \in Agents :
        /\ note.op = "disable_services" /\ note.agent = a
        /\ ~allow_services[a]
        /\ Loads = 1 /\ Bindings = 1
        /\ learned[a]["Chat"] = "OpenAIChat"
        /\ HasKey(known[a], "Chat")
        /\ \A n \in ApiSet("Chat"), x \in Inputs :
             CallThrough(attrs[a]["Chat"], baseActor, n, x)
               = Returns([inst |-> modules["OpenAIChat"], method |-> n], x)


(***************************************************************************)
(* Sub-agents.                                                             *)
(***************************************************************************)

\* Optional[bool]: <<>> for None, <<b>> for the value b.
OptionalBool == {<<>>, <<TRUE>>, <<FALSE>>}

\* dosaku.utils.ifnone(value, default)
ifnone(value, default) == IF value = <<>> THEN default ELSE value[1]

\* Variant: a flag that is not given is the default of Agent.__init__.
SpawnFlagDefault(given, inherited) == ifnone(given, FALSE)

\* spawn_subagent, lines 33-34
SpawnFlag(given, inherited) == ifnone(given, inherited)

\* Variant: a name in use is given to the new Agent.
SpawnCollidesNever(a, name) == FALSE

\* spawn_subagent, line 35: name in self.subagents.keys()
SpawnCollides(a, name) == subagents[a][name].present

\* Agents created as sub-agents so far.
Spawns ==
    Sum([p \in Agents \X SubNames |-> subagents[p[1]][p[2]].gen], Agents \X SubNames)

\* Agent(name=name, enable_services=..., enable_executors=...): a new object.
NewChild(old, services, executors) ==
    [present |-> TRUE, gen |-> old.gen + 1, services |-> services,
     executors |-> executors]

\* spawn_subagent(name, enable_services, enable_executors) of agent a
SpawnSubagent(a, name, enable_services, enable_executors) ==
    /\ IF SpawnCollides(a, name)
       THEN /\ note' = [Noted("spawn_subagent", a, name, "ValueError")
                          EXCEPT !.given = <<enable_services, enable_executors>>]
            /\ UNCHANGED subagents
       ELSE /\ Spawns < MaxSpawns
            /\ subagents' = [subagents EXCEPT ![a][name] =
                  NewChild(@, SpawnFlag(enable_services, allow_services[a]),
                           SpawnFlag(enable_executors, allow_executors[a]))]
            /\ note' = [Noted("spawn_subagent", a, name, "ok")
                          EXCEPT !.given = <<enable_services, enable_executors>>]
    /\ UNCHANGED <<core, memorized, threads, stream, discord>>

\* remove_subagent(name): del self.subagents[name]
RemoveSubagent(a, name) ==
    /\ IF subagents[a][name].present
       THEN /\ subagents' = [subagents EXCEPT ![a][name] =
                               [NoChild EXCEPT !.gen = subagents[a][name].gen]]
            /\ note' = Noted("remove_subagent", a, name, "ok")
       ELSE /\ note' = Noted("remove_subagent", a, name, "KeyError")
            /\ UNCHANGED subagents
    /\ UNCHANGED <<core, memorized, threads, stream, discord>>

\* self.subagents[name].enable_services() and the like: the child's own flag.
ChildSetServices(a, name, value) ==
    /\ subagents[a][name].present
    /\ subagents' = [subagents EXCEPT ![a][name].services = value]
    /\ note' = Noted("child_services", a, name, "ok")
    /\ UNCHANGED <<core, memorized, threads, stream, discord>>

ChildSetExecutors(a, name, value) ==
    /\ subagents[a][name].present
    /\ subagents' = [subagents EXCEPT ![a][name].executors = value]
    /\ note' = Noted("child_executors", a, name, "ok")
    /\ UNCHANGED <<core, memorized, threads, stream, discord>>

SubNext ==
    \/ \E a \in Parents, name \in SubNames, es \in OptionalBool, ee \in OptionalBool :
          SpawnSubagent(a, name, es, ee)
    \/ \E a \in Parents, name \in SubNames : RemoveSubagent(a, name)
    \/ \E a \in Parents, name \in SubNames, v \in BOOLEAN : ChildSetServices(a, name, v)
    \/ \E a \in Parents, name \in SubNames, v \in BOOLEAN : ChildSetExecutors(a, name, v)
    \/ \E a \in Parents : PermEnableServices(a)
    \/ \E a \in Parents : PermDisableServices(a)
    \/ \E a \in Parents : PermEnableExecutors(a)
    \/ \E a \in Parents : PermDisableExecutors(a)

SubSpec == Init /\ [][SubNext]_vars

\* C14: spawn_subagent(name) raises the collision error, and leaves the
\* sub-agents as they are, exactly when the name denotes a sub-agent at the
\* call; otherwise it installs a new Agent under the name, and it is the
\* only change.  remove_subagent(name) of an existing name frees the name.
C14_SubagentNamesUnique ==
    [][\A a \in Agents, name \in SubNames :
        /\ (note'.op = "spawn_subagent" /\ note'.agent = a /\ note'.name = name)
            => /\ (note'.outcome = "ValueError") <=> subagents[a][name].present
               /\ note'.outcome \in {"ValueError", "ok"}
               /\ note'.outcome = "ValueError" => subagents' = subagents
               /\ note'.outcome = "ok" =>
                    /\ subagents'[a][name].present
                    /\ subagents'[a][name].gen = subagents[a][name].gen + 1
                    /\ \A b \in Agents, n \in SubNames :
                         <<b, n>> # <<a, name>> => subagents'[b][n] = subagents[b][n]
        /\ (note'.op = "remove_subagent" /\ note'.agent = a /\ note'.name = name
              /\ subagents[a][name].present)
            => /\ note'.outcome = "ok"
               /\ ~subagents'[a][name].present]_vars

\* A name that was freed by remove_subagent has just been given to a new
\* Agent, the second under that name.
C14_Witness ==
    /\ note.op = "spawn_subagent" /\ note.outcome = "ok"
    /\ subagents[note.agent][note.name].present
    /\ subagents[note.agent][note.name].gen = 2


\* C15: a sub-agent gets, for each flag, the value passed to spawn_subagent
\* when one is passed, true or false, and the parent's value at the call
\* otherwise.  Afterwards enable_* and disable_* of the parent leave every
\* sub-agent as it is, and those of a sub-agent leave the parent's flags and
\* the other sub-agents as they are.
C15_FlagsInheritedAtSpawn ==
    [][/\ \A a \in Parents, name \in SubNames :
            (note'.op = "spawn_subagent" /\ note'.agent = a /\ note'.name = name
                /\ note'.outcome = "ok")
            => /\ subagents'[a][name].services =
                     IF note'.given[1] = <<>> THEN allow_services[a]
                     ELSE note'.given[1][1]
               /\ subagents'[a][name].executors =
                     IF note'.given[2] = <<>> THEN allow_executors[a]
                     ELSE note'.given[2][1]
               /\ allow_services' = allow_services
               /\ allow_executors' = allow_executors
       /\ note'.op \in {"enable_services", "disable_services",
                        "enable_executors", "disable_executors"}
            => subagents' = subagents
       /\ \A a \in Parents, name \in SubNames :
            (note'.op \in {"child_services", "child_executors"}
                /\ note'.agent = a /\ note'.name = name)
            => /\ allow_services' = allow_services
               /\ allow_executors' = allow_executors
               /\ \A b \in Agents, n \in SubNames :
                    <<b, n>> # <<a, name>> => subagents'[b][n] = subagents[b][n]]_vars

\* A parent with both flags on has just spawned a sub-agent without a
\* services flag and with enable_executors=False: the child has services
\* on and executors off.
C15_Witness ==
    /\ note.op = "spawn_subagent" /\ note.outcome = "ok"
    /\ note.given = << <<>>, <<FALSE>> >>
    /\ allow_services[note.agent] /\ allow_executors[note.agent]
    /\ subagents[note.agent][note.name].services
    /\ ~subagents[note.agent][note.name].executors


(***************************************************************************)
(* memorize.  An action name is written as the sequence of its characters, *)
(* since memorize takes some strings apart.                                *)
(***************************************************************************)
Go == <<"g", "o">>
F == <<"f">>

\* ShortTermModule objects: a name and api(), a dict whose keys are the
\* action names.
STMs ==
    { [kind |-> "STM", id |-> 1, name |-> "Chat", api |-> <<Go, F>>],
      [kind |-> "STM", id |-> 2, name |-> UnknownTask, api |-> <<F, Go>>],
      [kind |-> "STM", id |-> 3, name |-> UnknownTask, api |-> <<Go>>] }

\* The actions argument: None, a list of names or one name as a string.
NoActions == [kind |-> "None", value |-> <<>>]
ActionArgs ==
    { NoActions,
      [kind |-> "list", value |-> <<Go>>],
      [kind |-> "list", value |-> <<F, Go>>],
      [kind |-> "str", value |-> Go],
      [kind |-> "str", value |-> F] }

\* list(s) of a string s: the list of its characters, each a string.
ListOfString(str) == [i \in 1..Len(str) |-> <<str[i]>>]

\* Variant: without actions nothing is recorded.
DefaultActionsNone(stm) == <<>>

\* memorize, lines 148-149: list(stm.api().keys())
DefaultActions(stm) == stm.api

\* memorize, lines 148-151: the list that is recorded.
RecordedActions(stm, actions) ==
    IF actions.kind = "None" THEN DefaultActions(stm)
    ELSE IF actions.kind = "str" THEN ListOfString(actions.value)
    ELSE actions.value

\* memorize(stm, actions) of agent a
Memorize(a, stm, actions) ==
    /\ attrs' = [attrs EXCEPT ![a][stm.name] = stm]
    /\ memorized' = [memorized EXCEPT ![a] =
                        DictSet(@, stm.name, RecordedActions(stm, actions))]
    /\ note' = [Noted("memorize", a, stm.name, "ok") EXCEPT !.given = <<stm, actions>>]
    /\ UNCHANGED <<hub, modules, allow_services, allow_executors, known,
                   baseActor, learned, last, subagents, threads, stream, discord>>

\* learn(t) through a module that implements t.
MemLearn(a, t) ==
    /\ Learn(a, t, IF t = "Chat" THEN "EchoBot" ELSE "BARTZeroShotClassifier",
             FALSE, "default")
    /\ note' = NoNote
    /\ UNCHANGED <<memorized, subagents, threads, stream, discord>>

MemNext ==
    \/ \E a \in Parents, stm \in STMs, actions \in ActionArgs : Memorize(a, stm, actions)
    \/ \E a \in Parents, t \in TaskNames : MemLearn(a, t)
    \/ \E a \in Parents : PermEnableServices(a)
    \/ \E a \in Parents : PermDisableServices(a)

MemSpec == Init /\ [][MemNext]_vars

\* The latest call was memorize(stm) without actions.
MemorizedDefault == note.op = "memorize" /\ note.given[2] = NoActions

\* C16: memorize(stm) without actions puts stm.name in memorized_tasks,
\* once, with the keys of stm.api() in their order as its actions, makes stm
\* itself the attribute stm.name, and leaves the module cache, known_tasks
\* and the permission flags as they are, whatever the flags are.
C16_MemorizeDefault ==
    [][MemorizedDefault' =>
        LET a == note'.agent
            stm == note'.given[1]
        IN /\ Count(Keys(memorized'[a]), stm.name) = 1
           /\ DictGet(memorized'[a], stm.name) = stm.api
           /\ attrs'[a][stm.name] = stm
           /\ \A n \in TaskArgs \ {stm.name} : attrs'[a][n] = attrs[a][n]
           /\ \A i \in 1..Len(memorized[a]) :
                memorized[a][i][1] # stm.name => memorized'[a][i] = memorized[a][i]
           /\ modules' = modules /\ known' = known /\ hub' = hub
           /\ allow_services' = allow_services
           /\ allow_executors' = allow_executors]_vars

\* An agent without services that knows a task has just memorized a module
\* without actions: the module is its attribute and its api is recorded.
C16_Witness ==
    /\ MemorizedDefault
    /\ ~allow_services[note.agent]
    /\ Len(known[note.agent]) > 0 /\ Loads > 0
    /\ attrs[note.agent][note.name] = note.given[1]
    /\ note.name = UnknownTask
    /\ AgentApi(note.agent, note.name) = <<F, Go>>

\* C17: after memorize(stm, actions) with a list of names or with one name
\* as a string, agent.api(stm.name) is the list of the names given.
C17_MemorizeGivenActions ==
    [][\A a \in Agents, n \in TaskArgs :
        (note'.op = "memorize" /\ note'.agent = a /\ note'.name = n
            /\ note'.given[2].kind # "None")
        => AgentApi(a, n)' =
              IF note'.given[2].kind = "str" THEN <<note'.given[2].value>>
              ELSE note'.given[2].value]_vars

\* C20: every known task is an attribute holding the Actor of its latest
\* successful learn, with every action of the task bound to that learn's
\* module; every memorized name is an attribute holding a module memorized
\* under that name; and tasks has every name once.
C20_LearnedAndMemorizedApart ==
    \A a \in Agents :
        /\ \A t \in TaskNames : HasKey(known[a], t) =>
              /\ attrs[a][t].kind = "Actor"
              /\ \A c \in ReachedAll(a, t) :
                    c # NoCallable /\ c.inst.module = learned[a][t]
        /\ \A n \in TaskArgs : HasKey(memorized[a], n) =>
              /\ attrs[a][n].kind = "STM"
              /\ attrs[a][n].name = n
        /\ \A i \in 1..Len(tasks(a)) : Count(tasks(a), tasks(a)[i]) = 1


\* C18: right after a successful learn(T) bound to module M, a call of any
\* action of api(T) through agent.T with any input returns what that action
\* of the cached instance of M returns for the input, and it is that action
\* which runs.
C18_CallsReachTheModule ==
    Learned =>
        \A n \in ApiSet(last.task), x \in Inputs :
            CallThrough(attrs[last.agent][last.task], baseActor, n, x)
              = Returns([inst |-> modules[last.module], method |-> n], x)

\* A task that was bound to one module has just been learned again through
\* another, and a call of its primary action is answered by the cached
\* instance of the new module.
C18_Witness ==
    /\ Learned /\ last.relearn
    /\ last.prev # last.module
    /\ \E x \in Inputs :
         LET r == CallThrough(attrs[last.agent][last.task], baseActor,
                              Head(api(last.task)), x)
         IN r.err = None /\ r.by = modules[last.module]
              /\ r.action = Head(api(last.task)) /\ r.input = x


(***************************************************************************)
(* A streaming action: message(...) of a module set to stream returns a    *)
(* generator, and the caller iterates over it.                             *)
(***************************************************************************)
Chars == {"H", "i", "!"}

\* The full responses, as sequences of characters.
Responses == UNION {[1..n -> Chars] : n \in 0..MaxResponse}

Prefix(str, n) == [i \in 1..n |-> str[i]]

\* Variant: the element is the part of the response that is new.
StreamElementDelta(response, n) == <<response[n]>>

\* The n-th element a streaming message yields: the response so far.
StreamElement(response, n) == Prefix(response, n)

\* Variant: the response is produced when the generator is made.
StreamStartEager(response) == Len(response)

\* How much of the response exists when message(...) returns the generator.
StreamStart(response) == 0

\* message(...) with stream=True: the generator, nothing consumed yet.
StreamCall(response) ==
    /\ stream.state = "none"
    /\ stream' = [response |-> response, pos |-> StreamStart(response),
                  state |-> "open", yielded |-> <<>>]
    /\ note' = Noted("message", None, None, "ok")
    /\ UNCHANGED <<core, memorized, subagents, threads, discord>>

\* next(generator), from the caller's for loop: the producer runs up to its
\* next yield, or returns, and StopIteration ends the loop.  A generator that
\* has returned raises StopIteration for every later request.
StreamRequest ==
    /\ stream.state \in {"open", "exhausted"}
    /\ IF stream.state = "open" /\ stream.pos < Len(stream.response)
       THEN /\ stream' = [stream EXCEPT
                  !.pos = @ + 1,
                  !.yielded = Append(@, StreamElement(stream.response, stream.pos + 1))]
            /\ note' = Noted("next", None, None, "ok")
       ELSE /\ stream' = [stream EXCEPT !.state = "exhausted"]
            /\ note' = Noted("next", None, None, "StopIteration")
    /\ UNCHANGED <<core, memorized, subagents, threads, discord>>

StreamNext ==
    \/ \E response \in Responses : StreamCall(response)
    \/ StreamRequest

\* The caller's loop goes on asking until the generator ends.
StreamSpec == Init /\ [][StreamNext]_vars /\ WF_vars(StreamRequest)

\* What has been yielded is the prefixes of the response, in order, one per
\* request, and the generator ends only after the full response.
StreamCumulative ==
    /\ Len(stream.yielded) = stream.pos
    /\ stream.pos <= Len(stream.response)
    /\ \A i \in 1..Len(stream.yielded) :
          stream.yielded[i] = Prefix(stream.response, i)
    /\ stream.state = "exhausted" => stream.pos = Len(stream.response)

\* The producer moves by one element, and only in a request; a generator
\* that has ended stays ended and yields nothing more.
StreamPulled ==
    /\ stream'.pos # stream.pos
        => /\ note'.op = "next" /\ note'.outcome = "ok"
           /\ stream'.pos = stream.pos + 1
           /\ Len(stream'.yielded) = Len(stream.yielded) + 1
    /\ stream.state = "exhausted" => stream' = stream

\* C19: a streaming action yields the growing prefixes of the response,
\* each extending the one before and the last being the full response; the
\* sequence is finite and ends after the full response; the producer moves
\* only when the consumer asks for the next element; and a sequence that
\* has ended cannot be started again.
C19_StreamingContract ==
    /\ []StreamCumulative
    /\ [][StreamPulled]_vars
    /\ (stream.state = "open") ~> (stream.state = "exhausted")

\* A response of three characters has been consumed to its end: three
\* elements, the last the full response, then StopIteration.
C19_Witness ==
    /\ stream.state = "exhausted"
    /\ note.op = "next" /\ note.outcome = "StopIteration"
    /\ Len(stream.response) = 3
    /\ Len(stream.yielded) = 3
    /\ stream.yielded[3] = stream.response
    /\ stream.yielded[1] # stream.response


(***************************************************************************)
(* The Discord bot's on_message.  The text of a response is the sequence   *)
(* of its characters, each written as its position, so that two different  *)
(* parts of a text are different.                                          *)
(***************************************************************************)
max_len == 2000

Authors == {"bot", "user"}

\* What the tests of on_message tell apart: a message that starts with a
\* command prefix, a direct message, a guild message that mentions dosaku,
\* any other guild message.
MessageKinds == {"command", "dm", "mention", "other"}

\* The lengths of the responses of the backend: around every multiple of
\* max_len.
ResponseLengths ==
    {k * max_len + d : k \in 0..MaxChunks,
                       d \in {0, 1, 2, 500, 1000, 1500, 1998, 1999}}

Text(n) == [i \in 1..n |-> i]

Min(x, y) == IF x <= y THEN x ELSE y

\* text[start:end]
Slice(text, start, end) ==
    IF start >= Len(text) THEN <<>>
    ELSE SubSeq(text, start + 1, Min(end, Len(text)))

\* on_message, line 64: max(floor(len(response.text) // max_len), 1)
NumChunks(text) ==
    IF Len(text) \div max_len >= 1 THEN Len(text) \div max_len ELSE 1

\* on_message, lines 47-64 and 82-96, up to the first await of a send: a
\* message of the bot itself and one no branch answers end the handler, a
\* command goes to process_commands, a guild message that mentions dosaku is
\* answered with one reply, a direct message gets the backend's response.
OnMessage(author, kind, n) ==
    /\ discord.state \in {"idle", "done"}
    /\ discord' =
         IF author = "bot"
         THEN [NoMessage EXCEPT !.state = "done", !.author = author,
                                !.kind = kind, !.outcome = "ignored"]
         ELSE IF kind = "command"
         THEN [NoMessage EXCEPT !.state = "done", !.author = author,
                                !.kind = kind, !.outcome = "command"]
         ELSE IF kind = "dm"
         THEN [NoMessage EXCEPT !.state = "sending", !.author = author,
                                !.kind = kind, !.text = Text(n),
                                !.num_chunks = NumChunks(Text(n))]
         ELSE IF kind = "mention"
         THEN [NoMessage EXCEPT !.state = "done", !.author = author,
                                !.kind = kind, !.replies = 1,
                                !.outcome = "replied"]
         ELSE [NoMessage EXCEPT !.state = "done", !.author = author,
                                !.kind = kind, !.outcome = "ignored"]
    /\ kind # "dm" \/ author = "bot" => n = 0
    /\ UNCHANGED <<core, memorized, subagents, threads, stream, note>>

\* on_message, lines 65-68: one pass of the loop, and after the last pass
\* the end of the handler (the response has no images).
SendChunk ==
    /\ discord.state = "sending"
    /\ discord' = [discord EXCEPT
          !.sent = Append(@, Slice(discord.text, discord.idx * max_len,
                                   (discord.idx + 1) * max_len)),
          !.idx = @ + 1,
          !.state = IF discord.idx + 1 = discord.num_chunks THEN "done"
                    ELSE "sending",
          !.outcome = IF discord.idx + 1 = discord.num_chunks THEN "sent"
                      ELSE None]
    /\ UNCHANGED <<core, memorized, subagents, threads, stream, note>>

\* on_message, lines 78-79: a send raises discord.errors.Forbidden, and the
\* handler ends.
SendForbidden ==
    /\ discord.state = "sending"
    /\ discord' = [discord EXCEPT !.state = "done", !.outcome = "Forbidden"]
    /\ UNCHANGED <<core, memorized, subagents, threads, stream, note>>

DiscordNext ==
    \/ \E author \in Authors, kind \in MessageKinds, n \in ResponseLengths :
          OnMessage(author, kind, n)
    \/ SendChunk
    \/ SendForbidden

DiscordSpec == Init /\ [][DiscordNext]_vars

RECURSIVE Concat(_)
Concat(chunks) ==
    IF chunks = <<>> THEN <<>> ELSE Head(chunks) \o Concat(Tail(chunks))

\* C21: when the handler of a direct message has sent the response, the
\* chunks sent have at most 2000 characters each and, put together in the
\* order sent, are the full text of the response, whatever its length; and
\* nothing is sent or replied to a message of the bot itself.
C21_WholeResponseDelivered ==
    /\ (discord.state = "done" /\ discord.outcome = "sent")
        => /\ \A i \in 1..Len(discord.sent) : Len(discord.sent[i]) <= max_len
           /\ Concat(discord.sent) = discord.text
    /\ discord.author = "bot" => discord.sent = <<>> /\ discord.replies = 0

====
